---- MODULE Spec2Model ----
(***************************************************************************)
(* Model of app.py: extraction of the fields of a traffic ordinance from   *)
(* the text of its PDF, reconciliation of the OGGETTO and ORDINA sections, *)
(* and the "Genera XLS" handler that lays one column per PDF.              *)
(*                                                                         *)
(* Representation of text.  A Python string is a sequence of lexemes, the  *)
(* whitespace-separated words of the string (str.split()):                 *)
(*   k = "w"   a word; s its characters in lower case, c its letter case   *)
(*             (0 lower, 1 Capitalized, 2 UPPER, 3 any other mix)          *)
(*   k = "n"   a number; r its digit runs, more than one when the runs are *)
(*             joined by "/" (5/1/2026 is <<5>>, <<1>>, <<2,0,2,6>>)       *)
(*   k = "p"   a free-standing dash                                        *)
(*   k = "nl"  a line break (whitespace that holds "\n")                   *)
(*   k = "sp"  one blank character (only the default of GEOWORKS)          *)
(*   t         the punctuation mark glued to the end of the lexeme:        *)
(*             "", ".", ",", ";" or ":"                                    *)
(* Consecutive lexemes are separated by one blank unless a "nl" lexeme     *)
(* stands between them.  A digit is a one-character string.  A file name   *)
(* is a sequence of one-character strings.  The regular expressions of the *)
(* source are translated to what they match on such sequences.             *)
(***************************************************************************)
EXTENDS Integers, Sequences, FiniteSets, TLC

VARIABLES uploaded_files, order_by_elix, show_diag, pc,
          records, excel_data, diag_rows, columns_reported

vars == <<uploaded_files, order_by_elix, show_diag, pc,
          records, excel_data, diag_rows, columns_reported>>

-----------------------------------------------------------------------------
(* Lexemes *)

W(s, c) == [k |-> "w", s |-> s, c |-> c, r |-> <<>>, t |-> ""]
Num(runs) == [k |-> "n", s |-> "", c |-> 0, r |-> runs, t |-> ""]
NL == [k |-> "nl", s |-> "", c |-> 0, r |-> <<>>, t |-> ""]
Dash == [k |-> "p", s |-> "-", c |-> 0, r |-> <<>>, t |-> ""]
Blank == [k |-> "sp", s |-> " ", c |-> 0, r |-> <<>>, t |-> ""]
Tr(tok, p) == [tok EXCEPT !.t = p]

IsWord(tok) == tok.k = "w"
IsNum(tok) == tok.k = "n"

\* Words of the vocabulary that are not made of the letters A-Z alone.
DottedWords == {"p.g", "s.r.l", "s.n.c", "s.p.a", "c.so", "p.zza"}
ApostropheWords == {"all'impresa", "l'ordinanza"}
AccentedWords == {"necessita'", "prossimita'"}
SpecialWords == DottedWords \cup ApostropheWords \cup AccentedWords

\* [A-Za-z]+ : a word of ASCII letters only.
IsAsciiWord(tok) == IsWord(tok) /\ tok.s \notin SpecialWords
\* [A-Za-zÀ-ÖØ-öø-ÿ]+ : a word of Latin letters only.
IsLatinWord(tok) == IsWord(tok) /\ tok.s \notin (DottedWords \cup ApostropheWords)

\* str.lower() of one lexeme.
Lower(tok) == IF IsWord(tok) THEN [tok EXCEPT !.c = 0] ELSE tok
\* str.upper() of one lexeme.
Upper(tok) == IF IsWord(tok) THEN [tok EXCEPT !.c = IF Len(tok.s) = 1 THEN 1 ELSE 2] ELSE tok
\* str.capitalize() of one lexeme: first letter upper, the rest lower.
Capitalize(tok) == IF IsWord(tok) THEN [tok EXCEPT !.c = 1] ELSE tok

LastRun(tok) == tok.r[Len(tok.r)]
FirstRun(tok) == tok.r[1]

RECURSIVE DropWhile0(_)
DropWhile0(ds) ==
    IF Len(ds) > 1 /\ ds[1] = "0" THEN DropWhile0(Tail(ds)) ELSE ds

\* str(int(digits)): the leading zeros go, one digit at least stays.
StrInt(ds) == DropWhile0(ds)

\* f"{int(gg):02d}" for one or two digits.
Pad2(ds) == IF Len(StrInt(ds)) = 1 THEN <<"0">> \o StrInt(ds) ELSE StrInt(ds)

-----------------------------------------------------------------------------
(* one_line: whitespace and OCR repairs *)

Glue(a, b) ==
    [b EXCEPT !.r = SubSeq(a.r, 1, Len(a.r) - 1) \o <<LastRun(a) \o FirstRun(b)>> \o Tail(b.r)]

\* re.sub(r"(?<=\d)\s+(?=\d)", "", t)
RECURSIVE MergeDigits(_)
MergeDigits(t) ==
    IF Len(t) < 2 THEN t
    ELSE IF IsNum(t[1]) /\ t[1].t = "" /\ IsNum(t[2])
         THEN MergeDigits(<<Glue(t[1], t[2])>> \o SubSeq(t, 3, Len(t)))
         ELSE <<t[1]>> \o MergeDigits(Tail(t))

\* re.sub(r"\ba\s+b\b", out, t, flags=re.I): two words rejoined, in lower case.
RECURSIVE MergePair(_, _, _, _)
MergePair(t, a, b, out) ==
    IF Len(t) < 2 THEN t
    ELSE IF /\ IsWord(t[1]) /\ t[1].s = a /\ t[1].t = ""
            /\ IsWord(t[2]) /\ t[2].s = b
         THEN <<Tr(W(out, 0), t[2].t)>> \o MergePair(SubSeq(t, 3, Len(t)), a, b, out)
         ELSE <<t[1]>> \o MergePair(Tail(t), a, b, out)

\* re.sub(r"\b[Vv]\s*ia\b", "via", t): case sensitive but for the first letter.
RECURSIVE TopoFix(_, _, _, _)
TopoFix(t, first, rest, out) ==
    IF t = <<>> THEN t
    ELSE IF IsWord(t[1]) /\ t[1].s = out /\ t[1].c \in {0, 1}
         THEN <<[t[1] EXCEPT !.c = 0]>> \o TopoFix(Tail(t), first, rest, out)
         ELSE IF /\ Len(t) >= 2
                 /\ IsWord(t[1]) /\ t[1].s = first /\ t[1].t = ""
                 /\ IsWord(t[2]) /\ t[2].s = rest /\ t[2].c = 0
              THEN <<Tr(W(out, 0), t[2].t)>> \o TopoFix(SubSeq(t, 3, Len(t)), first, rest, out)
              ELSE <<t[1]>> \o TopoFix(Tail(t), first, rest, out)

IsNotNL(tok) == tok.k # "nl"

one_line(text) ==
    IF text = <<>> THEN <<>>
    ELSE LET t1 == SelectSeq(text, IsNotNL)
             t2 == MergeDigits(t1)
             t3 == MergePair(t2, "d", "el", "del")
             t4 == MergePair(t3, "a", "lle", "alle")
             t5 == MergePair(t4, "dal", "le", "dalle")
             t6 == MergePair(t5, "giorn", "i", "giorni")
             t7 == TopoFix(t6, "v", "icolo", "vicolo")
             t8 == TopoFix(t7, "v", "ia", "via")
             t9 == TopoFix(t8, "c", "orso", "corso")
             t10 == TopoFix(t9, "p", "iazza", "piazza")
         IN  TopoFix(t10, "v", "iale", "viale")

\* A lexeme that ends in a single letter standing alone: one letter, or a
\* dotted abbreviation whose last part is one letter ("S.r.l", "P.g").
EndsInLoneLetter(tok) ==
    /\ IsWord(tok)
    /\ \/ tok.s \notin SpecialWords /\ Len(tok.s) = 1
       \/ tok.s \in {"p.g", "s.r.l", "s.n.c", "s.p.a"}

\* Letter case of the two joined.
MergeCase(a, b) ==
    IF a.c = 0 /\ b.c = 0 THEN 0
    ELSE IF a.c = 1 /\ b.c = 0 THEN 1
    ELSE IF Len(a.s) = 1 /\ a.c >= 1 /\ b.c = 2 THEN 2
    ELSE IF a.c = 2 /\ b.c = 2 THEN 2
    ELSE 3

\* ([A-Za-z]{2,})\b at the start of a lexeme.
LeadsWithTwoLetters(tok) ==
    /\ IsWord(tok)
    /\ \/ tok.s \notin SpecialWords /\ Len(tok.s) >= 2
       \/ tok.s = "all'impresa"

\* re.sub(r"\b([A-Za-z])\s+([A-Za-z]{2,})\b", r"\1\2", s)
RECURSIVE fix_internal_splits(_)
fix_internal_splits(s) ==
    IF Len(s) < 2 THEN s
    ELSE IF EndsInLoneLetter(s[1]) /\ s[1].t = "" /\ LeadsWithTwoLetters(s[2])
         THEN <<[s[2] EXCEPT !.s = s[1].s \o s[2].s, !.c = MergeCase(s[1], s[2])]>>
                  \o fix_internal_splits(SubSeq(s, 3, Len(s)))
         ELSE <<s[1]>> \o fix_internal_splits(Tail(s))

Acronyms == {"sas", "ss", "srl", "spa"}
DottedAcronyms == {"s.n.c", "s.r.l", "s.p.a"}

capitalize_word(w) ==
    IF IsWord(w) /\ Len(w.s) = 1 /\ w.c >= 1 /\ w.t = "."
    THEN w
    ELSE IF IsWord(w) /\ ((w.s \in Acronyms /\ w.t = "") \/ (w.s \in DottedAcronyms /\ w.t = "."))
         THEN Upper(w)
         ELSE Capitalize(w)

capitalize_mixed(s) == [i \in 1..Len(s) |-> capitalize_word(s[i])]

-----------------------------------------------------------------------------
(* Searching *)

\* The least member of a set of indices, 0 when it is empty: the start of the
\* leftmost match of re.search.
Least(S) == IF S = {} THEN 0 ELSE CHOOSE j \in S : \A k \in S : j <= k

\* A fixed phrase, its words separated by single blanks, read without
\* regard to case.
PhraseAt(t, i, words) ==
    /\ i >= 1
    /\ i + Len(words) - 1 <= Len(t)
    /\ \A n \in 1..Len(words) :
          /\ IsWord(t[i + n - 1])
          /\ t[i + n - 1].s = words[n]
          /\ (n < Len(words) => t[i + n - 1].t = "")

WordAt(t, i, s) == i >= 1 /\ i <= Len(t) /\ IsWord(t[i]) /\ t[i].s = s

\* A lexeme that is not a line break: where \s* or \s+ stops.
IsText(t, j) == t[j].k # "nl"

-----------------------------------------------------------------------------
(* Sections of the document *)

ResponsabilePhrase == <<"il", "responsabile", "del", "settore", "strade">>

\* r"OGGETTO:"
OggettoAt(t, i) == WordAt(t, i, "oggetto") /\ t[i].t = ":"
\* r"IL RESPONSABILE DEL SETTORE STRADE"
ResponsabileAt(t, i) == PhraseAt(t, i, ResponsabilePhrase)
\* r"\bORDINA\b"
OrdinaAt(t, i) == WordAt(t, i, "ordina")
\* r"\bDEMANDA\b"
DemandaAt(t, i) == WordAt(t, i, "demanda")
\* r"\b(?:AVVERTE|Per il Responsabile|IL RESPONSABILE)\b"
SignoffAt(t, i) ==
    \/ WordAt(t, i, "avverte")
    \/ PhraseAt(t, i, <<"per", "il", "responsabile">>)
    \/ PhraseAt(t, i, <<"il", "responsabile">>)
\* r"\b(?:DEMANDA|AVVERTE|Per il Responsabile|IL RESPONSABILE)\b"
OrdinaEndAt(t, i) == DemandaAt(t, i) \/ SignoffAt(t, i)

\* The patterns get_section is called with.
StartResponsabile == "IL RESPONSABILE DEL SETTORE STRADE"
StartOrdina == "\\bORDINA\\b"
EndOrdina == "\\b(?:DEMANDA|AVVERTE|Per il Responsabile|IL RESPONSABILE)\\b"
StartDemanda == "\\bDEMANDA\\b"
EndDemanda == "\\b(?:AVVERTE|Per il Responsabile|IL RESPONSABILE)\\b"

\* Whether a match of the pattern starts at lexeme i, and the lexemes a match
\* of a start pattern takes.
MatchAt(pattern, t, i) ==
    CASE pattern = StartResponsabile -> ResponsabileAt(t, i)
      [] pattern = StartOrdina -> OrdinaAt(t, i)
      [] pattern = EndOrdina -> OrdinaEndAt(t, i)
      [] pattern = StartDemanda -> DemandaAt(t, i)
      [] pattern = EndDemanda -> SignoffAt(t, i)

MatchLen(pattern) ==
    IF pattern = StartResponsabile THEN Len(ResponsabilePhrase) ELSE 1

\* A get_section that looks for the end pattern in the whole text instead of
\* in text[start_idx:].
get_section_end_anywhere(text, start_pattern, end_pattern) ==
    IF text = <<>> THEN <<>>
    ELSE LET m == Least({n \in 1..Len(text) : MatchAt(start_pattern, text, n)})
         IN  IF m = 0 THEN <<>>
             ELSE LET start_idx == m + MatchLen(start_pattern)
                      m2 == Least({n \in 1..Len(text) : MatchAt(end_pattern, text, n)})
                  IN  IF m2 # 0
                      THEN SubSeq(text, start_idx, m2 - 1)
                      ELSE SubSeq(text, start_idx, Len(text))

\* get_section: the text between the first start match and the first end
\* match after it; to the end of the text when no end match follows.
get_section(text, start_pattern, end_pattern) ==
    IF text = <<>> THEN <<>>
    ELSE LET m == Least({n \in 1..Len(text) : MatchAt(start_pattern, text, n)})
         IN  IF m = 0 THEN <<>>
             ELSE LET start_idx == m + MatchLen(start_pattern)
                      m2 == Least({n \in start_idx..Len(text) : MatchAt(end_pattern, text, n)})
                  IN  IF m2 # 0
                      THEN SubSeq(text, start_idx, m2 - 1)
                      ELSE SubSeq(text, start_idx, Len(text))

\* re.search(r"OGGETTO:\s*(.+?)IL RESPONSABILE DEL SETTORE STRADE", txt_all,
\* re.S | re.I): \s* takes the line breaks after the colon, the group takes
\* one character at least, so the closing phrase is looked for from the
\* second lexeme on.  No match, and an empty OGGETTO, when it is not found.
ObjGroup(txt_all) ==
    LET m == Least({n \in 1..Len(txt_all) : OggettoAt(txt_all, n)})
        g == IF m = 0 THEN 0 ELSE Least({n \in (m + 1)..Len(txt_all) : IsText(txt_all, n)})
        e == IF g = 0 THEN 0 ELSE Least({n \in (g + 1)..Len(txt_all) : ResponsabileAt(txt_all, n)})
    IN  IF e = 0 THEN <<>> ELSE SubSeq(txt_all, g, e - 1)

obj_of(txt_all) == one_line(ObjGroup(txt_all))
responsabile_block_of(txt_all) ==
    get_section(txt_all, StartResponsabile, StartOrdina)
ordina_block_of(txt_all) == get_section(txt_all, StartOrdina, EndOrdina)
dem_block_of(txt_all) == get_section(txt_all, StartDemanda, EndDemanda)

-----------------------------------------------------------------------------
(* Dates and durations *)

Months == {"gennaio", "febbraio", "marzo", "aprile", "maggio", "giugno", "luglio",
           "agosto", "settembre", "ottobre", "novembre", "dicembre"}

\* MESE2NUM.get(mese.lower()); <<>> stands for None.
MESE2NUM(mese) ==
    CASE mese = "gennaio" -> <<"0", "1">>
      [] mese = "febbraio" -> <<"0", "2">>
      [] mese = "marzo" -> <<"0", "3">>
      [] mese = "aprile" -> <<"0", "4">>
      [] mese = "maggio" -> <<"0", "5">>
      [] mese = "giugno" -> <<"0", "6">>
      [] mese = "luglio" -> <<"0", "7">>
      [] mese = "agosto" -> <<"0", "8">>
      [] mese = "settembre" -> <<"0", "9">>
      [] mese = "ottobre" -> <<"1", "0">>
      [] mese = "novembre" -> <<"1", "1">>
      [] mese = "dicembre" -> <<"1", "2">>
      [] OTHER -> <<>>

\* The last one or two digits of a run: what (\d{1,2}) takes before \s+.
LastTwo(ds) == IF Len(ds) <= 2 THEN ds ELSE SubSeq(ds, Len(ds) - 1, Len(ds))

\* pat_txt: (\d{1,2})\s+([A-Za-zÀ-ÖØ-öø-ÿ]+)\s+(\d{4}).  The optional words in
\* front of it ("il", "dal", "del", "dalle ore H.MM del") hold no match of
\* their own and never change the three groups.
TextualAt(t, j) ==
    /\ j + 2 <= Len(t)
    /\ IsNum(t[j]) /\ t[j].t = ""
    /\ IsLatinWord(t[j + 1]) /\ t[j + 1].t = ""
    /\ IsNum(t[j + 2]) /\ Len(FirstRun(t[j + 2])) >= 4

\* r"\b(\d{1,2})/(\d{1,2})/(\d{4})\b" inside one number.
NumericRuns(tok) ==
    {i \in 1..(Len(tok.r) - 2) :
        /\ Len(tok.r[i]) \in 1..2
        /\ Len(tok.r[i + 1]) \in 1..2
        /\ Len(tok.r[i + 2]) = 4}

NumericAt(t, j) == IsNum(t[j]) /\ NumericRuns(t[j]) # {}

DateValue(gg, mm, aaaa) == <<Num(<<gg, mm, aaaa>>)>>

parse_date_numeric(t) ==
    LET m2 == Least({n \in 1..Len(t) : NumericAt(t, n)})
    IN  IF m2 = 0 THEN <<>>
        ELSE LET S == NumericRuns(t[m2])
                 i == CHOOSE x \in S : \A y \in S : x <= y
             IN  DateValue(Pad2(t[m2].r[i]), Pad2(t[m2].r[i + 1]), t[m2].r[i + 2])

parse_date_ggmmaaaa(text) ==
    IF text = <<>> THEN <<>>
    ELSE LET Parse(t) ==
                 LET m == Least({n \in 1..Len(t) : TextualAt(t, n)})
                 IN  IF m # 0 /\ MESE2NUM(t[m + 1].s) # <<>>
                     THEN DateValue(Pad2(LastTwo(LastRun(t[m]))),
                                    MESE2NUM(t[m + 1].s),
                                    SubSeq(FirstRun(t[m + 2]), 1, 4))
                     ELSE parse_date_numeric(t)
         IN  Parse(one_line(text))

\* (?:gg\.?|g\s*g\.?|g\s*i\s*o\s*r\s*n\s*i|giorn(?:o|i))\b
DayUnitAt(t, i) ==
    \/ WordAt(t, i, "gg")
    \/ WordAt(t, i, "giorno")
    \/ WordAt(t, i, "giorni")
    \/ PhraseAt(t, i, <<"g", "g">>)
    \/ PhraseAt(t, i, <<"g", "i", "o", "r", "n", "i">>)

\* \b((?:\d\s*){1,3})\s*<unit>: a run of one to three digits, then the unit.
DaysAt(t, j) ==
    /\ IsNum(t[j]) /\ t[j].t = ""
    /\ Len(LastRun(t[j])) \in 1..3
    /\ DayUnitAt(t, j + 1)

extract_days(text) ==
    IF text = <<>> THEN <<>>
    ELSE LET LowerOf(t0) == [i \in 1..Len(t0) |-> Lower(t0[i])]
             Search(t) ==
                 LET m == Least({n \in 1..Len(t) : DaysAt(t, n)})
                 IN  IF m # 0 THEN <<Num(<<LastRun(t[m])>>)>> ELSE <<>>
         IN  Search(LowerOf(one_line(text)))

\* r"\b(\d{1,3})\s*ore\b" on the text as it is (line breaks count as \s).
HoursAt(t, j) ==
    /\ IsNum(t[j]) /\ t[j].t = ""
    /\ Len(LastRun(t[j])) \in 1..3
    /\ LET g == Least({n \in (j + 1)..Len(t) : IsText(t, n)}) IN WordAt(t, g, "ore")

has_hours(text) ==
    IF text = <<>> THEN FALSE
    ELSE Least({n \in 1..Len(text) : HoursAt(text, n)}) # 0

-----------------------------------------------------------------------------
(* Address *)

StreetPrefixes ==
    {"via", "viale", "corso", "c.so", "cso", "piazza", "largo", "piazzale", "contrada",
     "vicolo", "galleria", "tangenziale", "strada", "rotonda", "cavalcavia", "lungo",
     "lung", "p.zza", "pzza", "parco", "sp", "ss", "sr"}

\* What a character class without the apostrophe takes of a word that holds
\* one: the letters in front of it.
ClassPrefix(tok) ==
    IF tok.s = "all'impresa" THEN W("all", tok.c)
    ELSE IF tok.s = "l'ordinanza" THEN W("l", IF tok.c = 0 THEN 0 ELSE 1)
    ELSE Tr(tok, "")

\* [A-Za-zÀ-ÖØ-öø-ÿ0-9./\- ]+ : the run stops at a line break, at a comma,
\* semicolon or colon, and at an apostrophe inside a word.
RECURSIVE TakeStreet(_, _)
TakeStreet(t, i) ==
    IF i > Len(t) \/ t[i].k = "nl" THEN <<>>
    ELSE IF IsWord(t[i]) /\ t[i].s \in ApostropheWords THEN <<ClassPrefix(t[i])>>
    ELSE IF t[i].t \in {",", ";", ":"} THEN <<Tr(t[i], "")>>
    ELSE <<t[i]>> \o TakeStreet(t, i + 1)

\* STREET_RGX: \b(<prefix>\s+[...]+), re.I
StreetAt(t, j) ==
    /\ IsWord(t[j]) /\ t[j].s \in StreetPrefixes /\ t[j].t = ""
    /\ Least({n \in (j + 1)..Len(t) : IsText(t, n)}) # 0

\* STREET_RGX.search(text).group(1), <<>> when there is no match.
StreetGroup(t) ==
    LET mo == Least({n \in 1..Len(t) : StreetAt(t, n)})
    IN  IF mo = 0 THEN <<>>
        ELSE <<t[mo]>> \o TakeStreet(t, Least({n \in (mo + 1)..Len(t) : IsText(t, n)}))

AddrStopWords ==
    {"provvedimenti", "divieto", "dalle", "dal", "del", "durata", "per", "tratto",
     "intersezione", "tronco", "all", "alla", "alle", "all'impresa"}

\* s1[:ADDR_STOPS.search(s1).start()].strip()
RECURSIVE CutAtStop(_)
CutAtStop(s1) ==
    IF s1 = <<>> THEN <<>>
    ELSE IF s1[1].k = "p" \/ (IsWord(s1[1]) /\ s1[1].s \in AddrStopWords) THEN <<>>
    ELSE IF s1[1].t \in {",", ";"} THEN <<Tr(s1[1], "")>>
    ELSE <<s1[1]>> \o CutAtStop(Tail(s1))

\* \b(in prossimità|lato|nei pressi|area|zone|civico|civici)\b
TailAt(t, i) ==
    \/ \E w \in {"lato", "area", "zone", "civico", "civici"} : WordAt(t, i, w)
    \/ PhraseAt(t, i, <<"in", "prossimita'">>)
    \/ PhraseAt(t, i, <<"nei", "pressi">>)

\* re.split(...)[0].strip()
CutAtTail(s1) ==
    LET m == Least({n \in 1..Len(s1) : TailAt(s1, n)})
    IN  IF m = 0 THEN s1 ELSE SubSeq(s1, 1, m - 1)

clean_address(s) ==
    IF s = <<>> THEN <<>>
    ELSE capitalize_mixed(CutAtTail(CutAtStop(fix_internal_splits(one_line(s)))))

stop_tokens == {"nel", "nella", "della", "del", "dei", "degli", "delle", "tronco",
                "tratto", "intersezione"}
skip_tokens == {"al", "allo", "alla", "alle", "ai", "agli", "all"}

BaseWords == 4

\* The loop of base_street_name over addr.split(), base being what it has
\* collected so far.
RECURSIVE BaseLoop(_, _)
BaseLoop(tokens, base) ==
    IF tokens = <<>> THEN base
    ELSE LET w == tokens[1]
             plain == IsWord(w) /\ w.t = ""
         IN  IF plain /\ w.s \in skip_tokens THEN BaseLoop(Tail(tokens), base)
             ELSE IF plain /\ w.s \in stop_tokens THEN base
             ELSE IF Len(base) + 1 >= BaseWords THEN Append(base, Lower(w))
             ELSE BaseLoop(Tail(tokens), Append(base, Lower(w)))

base_street_name(addr) ==
    IF addr = <<>> THEN <<>> ELSE BaseLoop(addr, <<>>)

-----------------------------------------------------------------------------
(* Protocol number, company, revocation, GeoWorks, flags *)

\* P\.?\s*G\.?  : "P.G.", "PG", or a "P" that ends a word and a "G" after it;
\* the number of lexemes it takes, 0 when it is not there.
PGLen(t, j) ==
    IF IsWord(t[j]) /\ t[j].s \in {"p.g", "pg"} /\ t[j].t \in {"", "."} THEN 1
    ELSE IF /\ j + 1 <= Len(t)
            /\ IsWord(t[j]) /\ t[j].s \in {"p", "sp"} /\ t[j].t \in {"", "."}
            /\ IsWord(t[j + 1]) /\ t[j + 1].s = "g" /\ t[j + 1].t \in {"", "."}
         THEN 2
         ELSE 0

\* P\.?\s*G\.?\s*n[°º\.\s]*([0-9]+)(?:\s*/\s*\d{2,4})?
PGAt(t, j) ==
    LET n == PGLen(t, j)
    IN  /\ n # 0
        /\ j + n + 1 <= Len(t)
        /\ IsWord(t[j + n]) /\ t[j + n].s = "n" /\ t[j + n].t \in {"", "."}
        /\ IsNum(t[j + n + 1])

pick(s) ==
    IF s = <<>> THEN <<>>
    ELSE LET Search(s1) ==
                 LET m == Least({n \in 1..Len(s1) : PGAt(s1, n)})
                 IN  IF m # 0 THEN <<Num(<<FirstRun(s1[m + PGLen(s1, m) + 1])>>)>> ELSE <<>>
         IN  Search(one_line(s))

\* pick(text_block) or pick(full_text)
extract_pg(text_block, full_text) ==
    LET Or(a) == IF a # <<>> THEN a ELSE pick(full_text)
    IN  Or(pick(text_block))

\* (?:,|;|\n)
DittaEndAt(t, e) == t[e].k = "nl" \/ t[e].t \in {",", ";"}

\* (?:della\s+ditta|ditta)\s+(.+?)(?:,|;|\n)
DittaAt(t, j) ==
    /\ WordAt(t, j, "ditta") /\ t[j].t = ""
    /\ LET g == Least({n \in (j + 1)..Len(t) : IsText(t, n)})
       IN  g # 0 /\ Least({n \in g..Len(t) : DittaEndAt(t, n)}) # 0

DittaGroup(t) ==
    LET m == Least({n \in 1..Len(t) : DittaAt(t, n)})
    IN  IF m = 0 THEN <<>>
        ELSE LET g == Least({n \in (m + 1)..Len(t) : IsText(t, n)})
                 e == Least({n \in g..Len(t) : DittaEndAt(t, n)})
             IN  IF t[e].k = "nl" THEN SubSeq(t, g, e - 1)
                 ELSE Append(SubSeq(t, g, e - 1), Tr(t[e], ""))

ditta_of(txt_all) ==
    capitalize_mixed(fix_internal_splits(one_line(DittaGroup(txt_all))))

\* re.search(r"OGGETTO:\s*Revoca", txt_all, flags=re.I)
IsRevoca(t) ==
    \E j \in 1..Len(t) :
        /\ OggettoAt(t, j)
        /\ \E w \in {"revoca", "revocare"} : WordAt(t, Least({n \in (j + 1)..Len(t) : IsText(t, n)}), w)

RevocaPhrase == <<"data", "la", "necessita'", "di", "revocare", "l'ordinanza">>

\* [^.;\n]
NoStop(tok) ==
    tok.k # "nl" /\ tok.t \notin {".", ";"} /\ ~(IsWord(tok) /\ tok.s \in DottedWords)

\* "per" followed by blanks, every lexeme from `from` to it free of ".", ";"
\* and line breaks.
PerFrom(t, from) ==
    LET IsPer(x, k) == /\ WordAt(x, k, "per") /\ x[k].t = ""
                       /\ \A n \in from..(k - 1) : NoStop(x[n])
    IN  Least({n \in from..Len(t) : IsPer(t, n)})

HasSemicolon(t, e) == t[e].t = ";"

\* Data la necessità di revocare l’ordinanza P\.G\. n\.[^.;\n]*?per\s+([^;]+);
RevocaAt(t, j) ==
    /\ PhraseAt(t, j, RevocaPhrase) /\ t[j + 5].t = ""
    /\ j + 7 <= Len(t)
    /\ IsWord(t[j + 6]) /\ t[j + 6].s = "p.g" /\ t[j + 6].t = "."
    /\ IsWord(t[j + 7]) /\ t[j + 7].s = "n" /\ t[j + 7].t = "."
    /\ LET k == PerFrom(t, j + 8)
           g == IF k = 0 THEN 0 ELSE Least({n \in (k + 1)..Len(t) : IsText(t, n)})
       IN  g # 0 /\ Least({n \in g..Len(t) : HasSemicolon(t, n)}) # 0

RevocaGroup(t) ==
    LET m == Least({n \in 1..Len(t) : RevocaAt(t, n)})
    IN  IF m = 0 THEN <<>>
        ELSE LET g == Least({n \in (PerFrom(t, m + 8) + 1)..Len(t) : IsText(t, n)})
                 e == Least({n \in g..Len(t) : HasSemicolon(t, n)})
             IN  Append(SubSeq(t, g, e - 1), Tr(t[e], ""))

revoca_of(txt_all) ==
    IF IsRevoca(txt_all) THEN one_line(RevocaGroup(txt_all)) ELSE <<>>

\* (?:Codice\s*Geo\s*Works|Geo\s*Works|Geoworks)\s*:\s*([A-Za-z0-9\-_\.]+)
GeoAt(t, j) == WordAt(t, j, "geoworks") /\ t[j].t = ":" /\ j + 1 <= Len(t)

\* m_gw.group(1).rstrip(".; "): the word without its mark, the first run of a number.
GeoCode(tok) ==
    IF IsNum(tok) THEN Num(<<FirstRun(tok)>>)
    ELSE IF IsWord(tok) /\ tok.s = "necessita'" THEN W("necessit", tok.c)
    ELSE IF IsWord(tok) /\ tok.s = "prossimita'" THEN W("prossimit", tok.c)
    ELSE ClassPrefix(tok)

geoworks_of(obj) ==
    LET m_gw == Least({n \in 1..Len(obj) : GeoAt(obj, n)})
    IN  IF m_gw # 0 THEN <<GeoCode(obj[m_gw + 1])>> ELSE <<Blank>>

HasWord(t, s) == \E i \in 1..Len(t) : WordAt(t, i, s)
HasPhrase(t, words) == \E i \in 1..Len(t) : PhraseAt(t, i, words)

tpu_of(low) ==
    IF HasPhrase(low, <<"trasporto", "pubblico">>) \/ HasPhrase(low, <<"linee", "bus">>)
    THEN "TRASPORTO_SI" ELSE "no T"

ztl_of(low) == IF HasWord(low, "ztl") \/ HasWord(low, "portali") THEN "ZTL_SI" ELSE "no Z"

\* (Settore Strade|Servizio Gestione Traffico).*(posizionamento|segnaletica)
IsSquadra(t) ==
    \E i \in 1..Len(t), j \in 1..Len(t) :
        /\ \/ PhraseAt(t, i, <<"settore", "strade">>) /\ j >= i + 2
           \/ PhraseAt(t, i, <<"servizio", "gestione", "traffico">>) /\ j >= i + 3
        /\ (WordAt(t, j, "posizionamento") \/ WordAt(t, j, "segnaletica"))

demanda_of(txt_all) ==
    LET Flag(dem_block) ==
            IF dem_block = <<>> THEN "no D"
            ELSE IF HasWord(dem_block, "all'impresa") THEN "no D"
            ELSE IF IsSquadra(dem_block) THEN "SQ. MULTIDISC. SI"
            ELSE "no D"
    IN  Flag(dem_block_of(txt_all))

pista_of(low) == IF HasPhrase(low, <<"pista", "ciclabile">>) THEN "PISTA CICLABILE SI" ELSE "no P"

\* (fermata|stazione)\s+(?:della\s+)?(?:metropolitana|metro)
MetroAt(t, j) ==
    /\ (WordAt(t, j, "fermata") \/ WordAt(t, j, "stazione")) /\ t[j].t = ""
    /\ LET g == Least({n \in (j + 1)..Len(t) : IsText(t, n)})
           h == IF WordAt(t, g, "della") /\ t[g].t = "" THEN Least({n \in (g + 1)..Len(t) : IsText(t, n)}) ELSE g
       IN  WordAt(t, h, "metropolitana") \/ WordAt(t, h, "metro")

metro_of(low) == IF Least({n \in 1..Len(low) : MetroAt(low, n)}) # 0 THEN "METRO SI" ELSE "no M"

bsm_of(low) == IF HasPhrase(low, <<"brescia", "mobilita">>) THEN "BRESCIA MOBILITA' SI" ELSE "no B"

taxi_of(low) == IF HasWord(low, "taxi") THEN "TAXI SI" ELSE "no T"

-----------------------------------------------------------------------------
(* ELIX from the file name *)

DigitChars == {"0", "1", "2", "3", "4", "5", "6", "7", "8", "9"}

\* str.lower() of one character of a file name.
LowerCh(ch) ==
    CASE ch = "P" -> "p" [] ch = "D" -> "d" [] ch = "F" -> "f" [] ch = "A" -> "a"
      [] OTHER -> ch

\* filename.split("/")[-1]
RECURSIVE AfterLastSlash(_)
AfterLastSlash(name) ==
    IF \E i \in 1..Len(name) : name[i] = "/"
    THEN AfterLastSlash(Tail(name))
    ELSE name

EndsWithPdf(base) ==
    /\ Len(base) >= 4
    /\ [i \in 1..4 |-> LowerCh(base[Len(base) - 4 + i])] = <<".", "p", "d", "f">>

\* The digits the name ends with only: re.search(r"(\d+)$", base).
RECURSIVE TrailingDigitRun(_)
TrailingDigitRun(base) ==
    IF base = <<>> \/ base[Len(base)] \notin DigitChars THEN <<>>
    ELSE Append(TrailingDigitRun(SubSeq(base, 1, Len(base) - 1)), base[Len(base)])

\* re.findall(r"(\d+)", base)[-1], <<>> when base holds no digit.
RECURSIVE LastDigitRun(_)
LastDigitRun(base) ==
    IF base = <<>> THEN <<>>
    ELSE IF base[Len(base)] \notin DigitChars
         THEN LastDigitRun(SubSeq(base, 1, Len(base) - 1))
         ELSE LET before == SubSeq(base, 1, Len(base) - 1)
              IN  IF before # <<>> /\ before[Len(before)] \in DigitChars
                  THEN Append(LastDigitRun(before), base[Len(base)])
                  ELSE <<base[Len(base)]>>

ElixPlaceholder == <<W("elix", 2)>>

extract_elix_from_filename(filename) ==
    IF filename = <<>> THEN ElixPlaceholder
    ELSE LET base0 == AfterLastSlash(filename)
             base == IF EndsWithPdf(base0) THEN SubSeq(base0, 1, Len(base0) - 4) ELSE base0
             last == LastDigitRun(base)
         IN  IF last # <<>> THEN <<Num(<<StrInt(last)>>)>> ELSE ElixPlaceholder

-----------------------------------------------------------------------------
(* parse_fields_from_pdf *)

OkIndirizzo == "OK Indirizzo"
KoIndirizzo == "INDIRIZZO NON COERENTE TRA OGGETTO E TESTO DELL'ORDINANZA"
OkInizio == "OK Inizio"
KoInizio == "DATA INIZIO NON COERENTE TRA OGGETTO E TESTO DELL'ORDINANZA"
OkDurata == "OK Durata"
KoDurata == "DURATA IN GIORNI NON COERENTE TRA OGGETTO E TESTO DELL'ORDINANZA"

addr_obj_of(obj) == clean_address(StreetGroup(obj))
addr_ord_of(ordina_block) == clean_address(StreetGroup(ordina_block))

\* The precedence turned round: addr_ord or addr_obj.
indirizzo_ord_first(addr_obj, addr_ord) == IF addr_ord # <<>> THEN addr_ord ELSE addr_obj

\* indirizzo = addr_obj or addr_ord
indirizzo_of(addr_obj, addr_ord) == IF addr_obj # <<>> THEN addr_obj ELSE addr_ord

addr_ok(addr_obj_base, addr_ord_base) ==
    \/ addr_obj_base # <<>> /\ addr_ord_base # <<>> /\ addr_obj_base = addr_ord_base
    \/ addr_obj_base # <<>> /\ addr_ord_base = <<>>
    \/ addr_ord_base # <<>> /\ addr_obj_base = <<>>

esito_indirizzo_of(addr_obj, addr_ord) ==
    IF addr_ok(base_street_name(addr_obj), base_street_name(addr_ord))
    THEN OkIndirizzo ELSE KoIndirizzo

\* The precedence turned round: data_inizio_obj or data_inizio_ord or "".
data_inizio_obj_first(data_inizio_obj, data_inizio_ord) ==
    IF data_inizio_obj # <<>> THEN data_inizio_obj ELSE data_inizio_ord

\* data_inizio = data_inizio_ord or data_inizio_obj or ""
data_inizio_of(data_inizio_obj, data_inizio_ord) ==
    IF data_inizio_ord # <<>> THEN data_inizio_ord ELSE data_inizio_obj

esito_inizio_of(data_inizio_obj, data_inizio_ord) ==
    IF \/ data_inizio_obj # <<>> /\ data_inizio_ord # <<>> /\ data_inizio_obj = data_inizio_ord
       \/ data_inizio_obj # <<>> /\ data_inizio_ord = <<>>
       \/ data_inizio_ord # <<>> /\ data_inizio_obj = <<>>
    THEN OkInizio ELSE KoInizio

One == <<Num(<<<<"1">>>>)>>

\* The hours looked at before the days.
durata_giorni_hours_first(giorni_ord, giorni_obj, hours) ==
    IF hours THEN One
    ELSE IF giorni_ord # <<>> THEN giorni_ord
    ELSE giorni_obj

\* The day counts compared as numbers: int(giorni_ord) != int(giorni_obj).
esito_durata_numeric(giorni_ord, giorni_obj) ==
    IF /\ giorni_ord # <<>> /\ giorni_obj # <<>>
       /\ StrInt(FirstRun(giorni_ord[1])) # StrInt(FirstRun(giorni_obj[1]))
    THEN KoDurata ELSE OkDurata

\* if giorni_ord: ... elif giorni_obj: ... else: "1" if has_hours(...) else ""
durata_giorni_of(giorni_ord, giorni_obj, hours) ==
    IF giorni_ord # <<>> THEN giorni_ord
    ELSE IF giorni_obj # <<>> THEN giorni_obj
    ELSE IF hours THEN One ELSE <<>>

esito_durata_of(giorni_ord, giorni_obj) ==
    IF giorni_ord # <<>> /\ giorni_obj # <<>> /\ giorni_ord # giorni_obj
    THEN KoDurata ELSE OkDurata

Labels ==
    {"n. Elix", "OGGETTO", "INDIRIZZO", "DATA INIZIO", "DURATA IN GIORNI", "GEOWORKS",
     "N. di protocollo della richiesta P.G.", "Nome della ditta",
     "TRASPORTO PUBBLICO URBANO", "ZTL", "DEMANDA", "PISTA CICLABILE", "METRO",
     "BRESCIA MOBILITA'", "TAXI", "Terzultimo", "Penultimo", "Ultimo",
     "Revoca (se presente)"}

parse_fields_from_pdf(filename, full_text) ==
    LET \* The dict the function returns, from what it has extracted.
        Result(txt_all, obj, responsabile_block, ordina_block, addr_obj, addr_ord,
               data_inizio_obj, data_inizio_ord, giorni_ord, giorni_obj, low) ==
            ("n. Elix" :> extract_elix_from_filename(filename))
            @@ ("OGGETTO" :> obj)
            @@ ("INDIRIZZO" :> indirizzo_of(addr_obj, addr_ord))
            @@ ("DATA INIZIO" :> data_inizio_of(data_inizio_obj, data_inizio_ord))
            @@ ("DURATA IN GIORNI" :>
                   durata_giorni_of(giorni_ord, giorni_obj,
                                    has_hours(ordina_block) \/ has_hours(obj)))
            @@ ("GEOWORKS" :> geoworks_of(obj))
            @@ ("N. di protocollo della richiesta P.G." :> extract_pg(responsabile_block, txt_all))
            @@ ("Nome della ditta" :> ditta_of(txt_all))
            @@ ("TRASPORTO PUBBLICO URBANO" :> tpu_of(low))
            @@ ("ZTL" :> ztl_of(low))
            @@ ("DEMANDA" :> demanda_of(txt_all))
            @@ ("PISTA CICLABILE" :> pista_of(low))
            @@ ("METRO" :> metro_of(low))
            @@ ("BRESCIA MOBILITA'" :> bsm_of(low))
            @@ ("TAXI" :> taxi_of(low))
            @@ ("Terzultimo" :> esito_indirizzo_of(addr_obj, addr_ord))
            @@ ("Penultimo" :> esito_inizio_of(data_inizio_obj, data_inizio_ord))
            @@ ("Ultimo" :> esito_durata_of(giorni_ord, giorni_obj))
            @@ ("Revoca (se presente)" :> revoca_of(txt_all))
        \* The fields read in the sections.
        Fields(txt_all, obj, responsabile_block, ordina_block) ==
            Result(txt_all, obj, responsabile_block, ordina_block,
                   addr_obj_of(obj), addr_ord_of(ordina_block),
                   parse_date_ggmmaaaa(obj), parse_date_ggmmaaaa(ordina_block),
                   extract_days(ordina_block), extract_days(obj),
                   [i \in 1..Len(txt_all) |-> Lower(txt_all[i])])
    IN  Fields(full_text, obj_of(full_text), responsabile_block_of(full_text),
               ordina_block_of(full_text))

-----------------------------------------------------------------------------
(* The "Genera XLS" handler *)

DigitVal(ch) ==
    CASE ch = "0" -> 0 [] ch = "1" -> 1 [] ch = "2" -> 2 [] ch = "3" -> 3 [] ch = "4" -> 4
      [] ch = "5" -> 5 [] ch = "6" -> 6 [] ch = "7" -> 7 [] ch = "8" -> 8 [] ch = "9" -> 9

RECURSIVE IntOf(_)
IntOf(ds) == IF ds = <<>> THEN 0 ELSE 10 * IntOf(SubSeq(ds, 1, Len(ds) - 1)) + DigitVal(ds[Len(ds)])

NoElixKey == 999999

\* int(item[1].get("n. Elix", 999999)), 999999 when int() raises.
elix_key(item) ==
    LET e == item[2]["n. Elix"]
    IN  IF Len(e) = 1 /\ IsNum(e[1]) THEN IntOf(FirstRun(e[1])) ELSE NoElixKey

\* list.sort(key=elix_key): stable, ascending.
RECURSIVE InsertByKey(_, _)
InsertByKey(sorted, item) ==
    IF sorted = <<>> THEN <<item>>
    ELSE IF elix_key(sorted[Len(sorted)]) <= elix_key(item) THEN Append(sorted, item)
    ELSE Append(InsertByKey(SubSeq(sorted, 1, Len(sorted) - 1), item), sorted[Len(sorted)])

RECURSIVE SortByElix(_)
SortByElix(recs) ==
    IF recs = <<>> THEN <<>>
    ELSE InsertByKey(SortByElix(SubSeq(recs, 1, Len(recs) - 1)), recs[Len(recs)])

row_labels ==
    <<"n. Elix", "", "OGGETTO", "", "INDIRIZZO", "", "DATA INIZIO", "", "DURATA IN GIORNI", "",
      "GEOWORKS", "", "N. di protocollo della richiesta P.G.", "", "Nome della ditta", "",
      "TRASPORTO PUBBLICO URBANO", "", "ZTL", "", "DEMANDA", "", "PISTA CICLABILE", "",
      "METRO", "", "BRESCIA MOBILITA'", "", "TAXI", "",
      "Terzultimo", "", "Penultimo", "", "Ultimo", "",
      "Revoca (se presente)", "">>

\* ["" if rl == "" else fields.get(rl, "") for rl in row_labels]
ColumnOf(fields) ==
    [i \in 1..Len(row_labels) |-> IF row_labels[i] = "" THEN "" ELSE fields[row_labels[i]]]

\* excel_data[col_name] = column: a dict keeps one entry per key, at the
\* place where the key was first set.
DictSet(d, col_name, column) ==
    IF \E i \in 1..Len(d) : d[i][1] = col_name
    THEN [i \in 1..Len(d) |-> IF d[i][1] = col_name THEN <<col_name, column>> ELSE d[i]]
    ELSE Append(d, <<col_name, column>>)

RECURSIVE BuildExcel(_)
BuildExcel(recs) ==
    IF recs = <<>> THEN <<>>
    ELSE DictSet(BuildExcel(SubSeq(recs, 1, Len(recs) - 1)),
                 recs[Len(recs)][1], ColumnOf(recs[Len(recs)][2]))

\* The loop over the uploaded files: records.append((uf.name, fields)).
ParsedRecords(files) ==
    [i \in 1..Len(files) |-> <<files[i].name, parse_fields_from_pdf(files[i].name, files[i].text)>>]

DiagRow(uf, fields) ==
    LET Row(obj, ordina_block) ==
            [pdf |-> uf.name,
             data_oggetto |-> parse_date_ggmmaaaa(obj),
             data_ordina |-> parse_date_ggmmaaaa(ordina_block),
             giorni_oggetto |-> extract_days(obj),
             giorni_ordina |-> extract_days(ordina_block),
             giorni_campo |-> fields["DURATA IN GIORNI"],
             esito_data |-> IF fields["Penultimo"] = OkInizio THEN OkInizio ELSE "NON COERENTE"]
    IN  Row(obj_of(uf.text), ordina_block_of(uf.text))

GeneraXLS ==
    /\ pc = "ready"
    /\ uploaded_files # <<>>
    /\ \E parsed \in {ParsedRecords(uploaded_files)} :
       \E sorted \in {IF order_by_elix THEN SortByElix(parsed) ELSE parsed} :
           /\ records' = sorted
           /\ excel_data' = BuildExcel(sorted)
           /\ diag_rows' = IF show_diag
                           THEN [i \in 1..Len(parsed) |-> DiagRow(uploaded_files[i], parsed[i][2])]
                           ELSE <<>>
           /\ columns_reported' = Len(sorted)
    /\ pc' = "done"
    /\ UNCHANGED <<uploaded_files, order_by_elix, show_diag>>

Next == GeneraXLS

-----------------------------------------------------------------------------
(* Inputs *)

RECURSIVE Flatten(_)
Flatten(parts) == IF parts = <<>> THEN <<>> ELSE parts[1] \o Flatten(Tail(parts))

\* The texts made of at most n parts taken from P.
TextsOf(P, n) == {Flatten(ps) : ps \in UNION {[1..k -> P] : k \in 0..n}}

\* The pairs of texts made of at most n parts taken from P, both together.
SpanPairs(P, n) ==
    UNION {{<<Flatten(SubSeq(ps, 1, j)), Flatten(SubSeq(ps, j + 1, Len(ps)))>> : j \in 0..Len(ps)} :
             ps \in UNION {[1..k -> P] : k \in 0..n}}

\* The file names made of at most n characters taken from C.
NamesOf(C, n) == UNION {[1..k -> C] : k \in 0..n}

PdfName == <<"a", "_", "0", "4", ".", "p", "d", "f">>

Start(files, order, diag) ==
    /\ uploaded_files = files
    /\ order_by_elix = order
    /\ show_diag = diag
    /\ pc = "ready"
    /\ records = <<>>
    /\ excel_data = <<>>
    /\ diag_rows = <<>>
    /\ columns_reported = 0

File(name, text) == [name |-> name, text |-> text]
OneFile(text) == <<File(PdfName, text)>>

\* The one uploaded document and its result, where one file was uploaded.
Done == pc = "done" /\ Len(uploaded_files) = 1
Name == uploaded_files[1].name
Text == uploaded_files[1].text
Out == records[1][2]

Oggetto == Tr(W("oggetto", 2), ":")
Resp == <<W("il", 2), W("responsabile", 2), W("del", 2), W("settore", 2), W("strade", 2)>>
Ordina == W("ordina", 2)
Demanda == W("demanda", 2)

\* An ordinance with the two sections that are reconciled.
TwoSpans(o, r) == <<Oggetto>> \o o \o Resp \o <<NL, Ordina>> \o r \o <<NL, Demanda>>

(* Sections: every order of the anchors around a filler word. *)
MaxSectParts == 5
SectParts == {<<Oggetto>>, Resp, <<Ordina>>, <<Demanda>>, <<W("lavori", 0)>>}

InitSect == \E text \in TextsOf(SectParts, MaxSectParts) : Start(OneFile(text), TRUE, FALSE)
SpecSect == InitSect /\ [][Next]_vars

(* Addresses in the two sections. *)
MaxAddrParts == 3
AddrParts ==
    {<<W("via", 1), W("roma", 1)>>,
     <<W("via", 0), W("roma", 0)>>,
     <<W("via", 1), W("roma", 1), Num(<<<<"1", "0">>>>)>>,
     <<Dash, W("lavori", 0)>>,
     <<W("via", 2), W("milano", 2)>>}

InitAddr ==
    \E d \in SpanPairs(AddrParts, MaxAddrParts) : Start(OneFile(TwoSpans(d[1], d[2])), TRUE, FALSE)
SpecAddr == InitAddr /\ [][Next]_vars

(* Dates in the OGGETTO section. *)
MaxDateParts == 3
DateParts ==
    {<<Num(<<<<"1", "2">>>>), W("del", 0), Num(<<<<"2", "0", "2", "4">>>>)>>,
     <<W("dal", 0), Num(<<<<"2", "9">>>>), W("dicembre", 1), Num(<<<<"2", "0", "2", "5">>>>)>>,
     <<W("dal", 0), Num(<<<<"5">>, <<"1">>, <<"2", "0", "2", "6">>>>)>>,
     <<W("per", 0), W("lavori", 0)>>}

InitDate ==
    \E o \in TextsOf(DateParts, MaxDateParts) : Start(OneFile(TwoSpans(o, <<>>)), TRUE, TRUE)
SpecDate == InitDate /\ [][Next]_vars

(* Dates, days and hours in the two sections. *)
MaxTimeParts == 3
TimeParts ==
    {<<W("dal", 0), Num(<<<<"2", "9">>>>), W("dicembre", 1), Num(<<<<"2", "0", "2", "5">>>>)>>,
     <<W("dal", 0), Num(<<<<"5">>, <<"1">>, <<"2", "0", "2", "6">>>>)>>,
     <<W("per", 0), Num(<<<<"3">>>>), W("giorni", 0)>>,
     <<W("per", 0), Num(<<<<"1", "0">>>>), W("gg", 0)>>,
     <<W("per", 0), Num(<<<<"4">>>>), W("ore", 0)>>}

InitTime ==
    \E d \in SpanPairs(TimeParts, MaxTimeParts) : Start(OneFile(TwoSpans(d[1], d[2])), TRUE, TRUE)
SpecTime == InitTime /\ [][Next]_vars

(* Address, date and days together in the two sections. *)
MaxReconParts == 3
ReconParts ==
    {<<W("via", 0), W("roma", 0)>>,
     <<W("via", 1), W("milano", 1)>>,
     <<W("dal", 0), Num(<<<<"2", "9">>>>), W("dicembre", 1), Num(<<<<"2", "0", "2", "5">>>>)>>,
     <<W("dal", 0), Num(<<<<"5">>, <<"1">>, <<"2", "0", "2", "6">>>>)>>,
     <<W("per", 0), Num(<<<<"3">>>>), W("giorni", 0)>>,
     <<W("per", 0), Num(<<<<"0", "3">>>>), W("giorni", 0)>>}

InitRecon ==
    \E d \in SpanPairs(ReconParts, MaxReconParts) : Start(OneFile(TwoSpans(d[1], d[2])), TRUE, TRUE)
SpecRecon == InitRecon /\ [][Next]_vars

(* File names. *)
MaxNameLen == 4
NameChars == {"a", "_", "0", "4", "7"}
Extensions == {<<>>, <<".", "p", "d", "f">>, <<".", "P", "D", "F">>}

InitElix ==
    \E base \in NamesOf(NameChars, MaxNameLen) : \E ext \in Extensions :
        Start(<<File(base \o ext, <<>>)>>, TRUE, FALSE)
SpecElix == InitElix /\ [][Next]_vars

(* Batches of files. *)
MaxFiles == 2
Ordinance ==
    TwoSpans(<<W("lavori", 0), W("in", 0), W("via", 1), W("roma", 1), W("dal", 0),
               Num(<<<<"5">>, <<"1">>, <<"2", "0", "2", "6">>>>)>>,
             <<W("via", 0), W("roma", 0), W("per", 0), Num(<<<<"3">>>>), W("giorni", 0)>>)
BatchFiles ==
    {File(n, t) : n \in {<<"a", "_", "7", ".", "p", "d", "f">>,
                         <<"a", "_", "3", ".", "p", "d", "f">>,
                         <<"b", ".", "p", "d", "f">>},
                  t \in {<<>>, <<W("lavori", 0)>>, Ordinance}}

Init ==
    \E k \in 1..MaxFiles : \E files \in [1..k -> BatchFiles] :
    \E order \in BOOLEAN : \E diag \in BOOLEAN : Start(files, order, diag)
Spec == Init /\ [][Next]_vars

-----------------------------------------------------------------------------
(* Properties *)

\* The indices at which a pattern matches.
Matches(pattern, t) == {i \in 1..Len(t) : MatchAt(pattern, t, i)}
OggettoMatches(t) == {i \in 1..Len(t) : OggettoAt(t, i)}

\* The span between the first start match (S the start matches, len the
\* lexemes one takes) and the first end match after it (E the end matches);
\* to the end of the text when no end match follows; empty without a start.
Between(t, S, len, E) ==
    IF S = {} THEN <<>>
    ELSE LET from == Least(S) + len
             after == {e \in E : e >= from}
         IN  IF after = {} THEN SubSeq(t, from, Len(t))
             ELSE SubSeq(t, from, Least(after) - 1)

\* The OGGETTO of a text: from the first lexeme after the first "OGGETTO:" to
\* the first closing phrase that starts after that lexeme, normalised; empty
\* when there is no such closing phrase.
ObjBetween(t) ==
    LET S == OggettoMatches(t)
        from == IF S = {} THEN 0 ELSE Least({n \in (Least(S) + 1)..Len(t) : IsText(t, n)})
        E == {e \in Matches(StartResponsabile, t) : from # 0 /\ e > from}
    IN  IF E = {} THEN <<>> ELSE one_line(SubSeq(t, from, Least(E) - 1))

\* C7 (amended): the RESPONSABILE and ORDINA spans are empty when their start
\* anchor is missing, the text between the first start match and the first
\* end match after it when both occur, and the rest of the text when no end
\* match follows; the OGGETTO span is the normalised text from "OGGETTO:" to
\* the first closing phrase that starts at least one lexeme later, and it is
\* empty when "OGGETTO:" or that closing phrase is missing.
C7_Sections ==
    Done =>
        /\ responsabile_block_of(Text) =
               Between(Text, Matches(StartResponsabile, Text), MatchLen(StartResponsabile),
                       Matches(StartOrdina, Text))
        /\ ordina_block_of(Text) =
               Between(Text, Matches(StartOrdina, Text), 1, Matches(EndOrdina, Text))
        /\ Out["OGGETTO"] = ObjBetween(Text)

\* C7 witness: a document whose OGGETTO is closed and not empty and whose ORDINA
\* span runs to the end of the text, no end anchor following it.
C7_Witness ==
    /\ Done
    /\ Out["OGGETTO"] # <<>>
    /\ ordina_block_of(Text) # <<>>
    /\ \A e \in Matches(EndOrdina, Text) : e < Least(Matches(StartOrdina, Text))

\* C7 as stated: the OGGETTO span too follows the rule of the other two, and
\* is the rest of the text when the closing phrase is missing.
C7_AsStated ==
    Done =>
        Out["OGGETTO"] = Between(Text, OggettoMatches(Text), 1, Matches(StartResponsabile, Text))

\* What the two sections of the one document yield.
ObjSpan == Out["OGGETTO"]
OrdSpan == SelectSeq(ordina_block_of(Text), IsNotNL)
AddrObj == addr_obj_of(ObjSpan)
AddrOrd == addr_ord_of(ordina_block_of(Text))

\* C1 (amended): the resolved INDIRIZZO is the OGGETTO address whenever that is
\* not empty, also when the ORDINA address differs from it; it is the ORDINA
\* address when only that one is not empty; it is empty when both are empty.
C1_AddressResolution ==
    Done =>
        /\ AddrObj # <<>> => Out["INDIRIZZO"] = AddrObj
        /\ AddrObj = <<>> /\ AddrOrd # <<>> => Out["INDIRIZZO"] = AddrOrd
        /\ AddrObj = <<>> /\ AddrOrd = <<>> => Out["INDIRIZZO"] = <<>>

\* C1 witness: both sections hold an address, the base street names differ, and
\* the OGGETTO address is the resolved one.
C1_Witness ==
    /\ Done
    /\ AddrObj # <<>> /\ AddrOrd # <<>>
    /\ base_street_name(AddrObj) # base_street_name(AddrOrd)
    /\ Out["Terzultimo"] = KoIndirizzo
    /\ Out["INDIRIZZO"] = AddrObj

\* C1 as stated: the ORDINA address is the resolved one whenever it is not empty.
C1_AsStated ==
    Done =>
        /\ AddrOrd # <<>> => Out["INDIRIZZO"] = AddrOrd
        /\ AddrOrd = <<>> /\ AddrObj # <<>> => Out["INDIRIZZO"] = AddrObj
        /\ AddrObj = <<>> /\ AddrOrd = <<>> => Out["INDIRIZZO"] = <<>>

\* A street name alone: the toponym and one name.
IsStreetName(x) ==
    /\ Len(x) = 2
    /\ IsWord(x[1]) /\ x[1].s \in StreetPrefixes /\ x[1].t = ""
    /\ IsWord(x[2]) /\ x[2].t = ""

\* A civic number, text after a dash, or the number and then the text.
IsTrailingDetail(x) ==
    /\ x # <<>>
    /\ \/ x[1].k = "p"
       \/ IsNum(x[1]) /\ Len(x[1].r) = 1 /\ (Len(x) = 1 \/ x[2].k = "p")

\* The same words, whatever the letter case.
SameWords(x, y) == Len(x) = Len(y) /\ \A i \in 1..Len(x) : x[i].s = y[i].s

\* C4 as stated: where the OGGETTO address text is a street name followed by a
\* civic number and/or text after a stop marker, and the ORDINA address text
\* is the same street name alone in any letter case, the two base street
\* names are the same and the address verdict is OK.
C4_AsStated ==
    (/\ Done
     /\ Len(ObjSpan) > 2
     /\ IsStreetName(SubSeq(ObjSpan, 1, 2))
     /\ IsTrailingDetail(SubSeq(ObjSpan, 3, Len(ObjSpan)))
     /\ IsStreetName(OrdSpan)
     /\ SameWords(SubSeq(ObjSpan, 1, 2), OrdSpan))
    => /\ base_street_name(AddrObj) = base_street_name(AddrOrd)
       /\ Out["Terzultimo"] = OkIndirizzo

\* C4, the part that holds: text after a dash alone is ignored.
C4_DashOnly ==
    (/\ Done
     /\ Len(ObjSpan) > 2
     /\ IsStreetName(SubSeq(ObjSpan, 1, 2))
     /\ ObjSpan[3].k = "p"
     /\ IsStreetName(OrdSpan)
     /\ SameWords(SubSeq(ObjSpan, 1, 2), OrdSpan))
    => /\ base_street_name(AddrObj) = base_street_name(AddrOrd)
       /\ Out["Terzultimo"] = OkIndirizzo

\* The row of the diagnostic table for the one document: what each section
\* yields for the date and for the days.
Diag == diag_rows[1]

ExactlyOne(a, b) == (a = <<>>) # (b = <<>>)
Both(a, b) == a # <<>> /\ b # <<>>

\* The rule the verdicts of the address and of the start date follow.
Coherent(a, b, same) == ExactlyOne(a, b) \/ (Both(a, b) /\ same)

\* Two day counts that are the same number.
SameCount(a, b) == StrInt(FirstRun(a[1])) = StrInt(FirstRun(b[1]))

\* C2 (amended): the address verdict is OK exactly when one section alone
\* yields an address or both do and the base street names are equal; the
\* start-date verdict is OK exactly when one section alone yields a date or
\* both do and the dates are equal; the duration verdict is the mismatch
\* string exactly when both sections yield a day count and the two counts
\* differ as digit strings, and OK otherwise, also when neither yields one.
C2_Verdicts ==
    Done =>
        /\ Out["Terzultimo"] =
               IF Coherent(AddrObj, AddrOrd, base_street_name(AddrObj) = base_street_name(AddrOrd))
               THEN OkIndirizzo ELSE KoIndirizzo
        /\ Out["Penultimo"] =
               IF Coherent(Diag.data_oggetto, Diag.data_ordina, Diag.data_oggetto = Diag.data_ordina)
               THEN OkInizio ELSE KoInizio
        /\ Out["Ultimo"] =
               IF Both(Diag.giorni_oggetto, Diag.giorni_ordina)
                  /\ Diag.giorni_oggetto # Diag.giorni_ordina
               THEN KoDurata ELSE OkDurata

\* C2 witness: the addresses of the two sections differ (mismatch), one section
\* alone holds a date (OK), and neither holds a day count (OK all the same).
C2_Witness ==
    /\ Done
    /\ Both(AddrObj, AddrOrd) /\ Out["Terzultimo"] = KoIndirizzo
    /\ ExactlyOne(Diag.data_oggetto, Diag.data_ordina) /\ Out["Penultimo"] = OkInizio
    /\ Diag.giorni_oggetto = <<>> /\ Diag.giorni_ordina = <<>> /\ Out["Ultimo"] = OkDurata

\* C2 witness of the other half: both sections hold the same number of days
\* written differently ("3" and "03"), and the verdict is the mismatch.
C2_DigitStrings ==
    /\ Done
    /\ Both(Diag.giorni_oggetto, Diag.giorni_ordina)
    /\ SameCount(Diag.giorni_oggetto, Diag.giorni_ordina)
    /\ Out["Ultimo"] = KoDurata

\* C2 as stated: the duration verdict follows the rule of the other two.
C2_AsStated ==
    Done =>
        (Out["Ultimo"] = OkDurata) <=>
            Coherent(Diag.giorni_oggetto, Diag.giorni_ordina,
                     SameCount(Diag.giorni_oggetto, Diag.giorni_ordina))

\* C3: the resolved DATA INIZIO is the ORDINA date whenever that is not empty,
\* also when the OGGETTO date differs and the verdict is the mismatch, and the
\* OGGETTO date otherwise; the resolved day count is the ORDINA count whenever
\* that is not empty, and the OGGETTO count when only that one is; a value
\* that a section yields is never blanked.
C3_TimeResolution ==
    Done =>
        /\ Diag.data_ordina # <<>> => Out["DATA INIZIO"] = Diag.data_ordina
        /\ Diag.data_ordina = <<>> => Out["DATA INIZIO"] = Diag.data_oggetto
        /\ Diag.giorni_ordina # <<>> => Out["DURATA IN GIORNI"] = Diag.giorni_ordina
        /\ Diag.giorni_ordina = <<>> /\ Diag.giorni_oggetto # <<>> =>
               Out["DURATA IN GIORNI"] = Diag.giorni_oggetto
        /\ Diag.data_oggetto # <<>> => Out["DATA INIZIO"] # <<>>
        /\ Diag.giorni_oggetto # <<>> => Out["DURATA IN GIORNI"] # <<>>

\* C3 witness: the two sections hold different dates, the verdict is the
\* mismatch, and the ORDINA date is the resolved one.
C3_Witness ==
    /\ Done
    /\ Both(Diag.data_oggetto, Diag.data_ordina)
    /\ Diag.data_oggetto # Diag.data_ordina
    /\ Out["Penultimo"] = KoInizio
    /\ Out["DATA INIZIO"] = Diag.data_ordina

DayUnits == {"giorni", "giorno", "gg"}

\* The numbers a span holds in front of a day unit.
DayCounts(t) ==
    {<<Num(t[i].r)>> : i \in {n \in 1..(Len(t) - 1) :
                                /\ IsNum(t[n]) /\ Len(t[n].r) = 1
                                /\ IsWord(t[n + 1]) /\ t[n + 1].s \in DayUnits}}

\* A span that holds "<number> ore".
MentionsHours(t) ==
    \E i \in 1..(Len(t) - 1) : IsNum(t[i]) /\ IsWord(t[i + 1]) /\ t[i + 1].s = "ore"

C5_DaysOverHours ==
    /\ Done
    /\ DayCounts(ObjSpan) # {}
    /\ MentionsHours(OrdSpan)
    /\ Out["DURATA IN GIORNI"] \in DayCounts(ObjSpan)

\* The dates a text holds in words, "D <month> YYYY", and in digits, "D/M/YYYY".
TextualDates(t) ==
    {DateValue(Pad2(t[i].r[1]), MESE2NUM(t[i + 1].s), t[i + 2].r[1]) :
        i \in {n \in 1..(Len(t) - 2) :
                 /\ IsNum(t[n]) /\ Len(t[n].r) = 1 /\ Len(t[n].r[1]) \in 1..2
                 /\ IsWord(t[n + 1]) /\ t[n + 1].s \in Months
                 /\ IsNum(t[n + 2]) /\ Len(t[n + 2].r) = 1 /\ Len(t[n + 2].r[1]) = 4}}

NumericDates(t) ==
    {DateValue(Pad2(t[i].r[1]), Pad2(t[i].r[2]), t[i].r[3]) :
        i \in {n \in 1..Len(t) :
                 /\ IsNum(t[n]) /\ Len(t[n].r) = 3
                 /\ Len(t[n].r[1]) \in 1..2 /\ Len(t[n].r[2]) \in 1..2 /\ Len(t[n].r[3]) = 4}}

\* C9 as stated: a text that holds a date in words yields such a date, whatever
\* other number-word-year sequences it holds; a text that holds none but holds
\* a date in digits yields that one; the result is empty only when the text
\* holds neither.
C9_AsStated ==
    (Done /\ OrdSpan = <<>>) =>
        /\ TextualDates(ObjSpan) # {} => Out["DATA INIZIO"] \in TextualDates(ObjSpan)
        /\ TextualDates(ObjSpan) = {} /\ NumericDates(ObjSpan) # {} =>
               Out["DATA INIZIO"] \in NumericDates(ObjSpan)
        /\ Out["DATA INIZIO"] = <<>> =>
               TextualDates(ObjSpan) = {} /\ NumericDates(ObjSpan) = {}

\* C9, the part that holds: a text whose first number-word-year sequence is a
\* date in words yields that date, two digits for day and month.
C9_FirstSequence ==
    (/\ Done /\ OrdSpan = <<>>
     /\ Len(ObjSpan) >= 4
     /\ TextualDates(SubSeq(ObjSpan, 1, 4)) # {})
    => Out["DATA INIZIO"] \in TextualDates(SubSeq(ObjSpan, 1, 4))

\* The name without its ".pdf", in either letter case.
Stem(name) == IF EndsWithPdf(name) THEN SubSeq(name, 1, Len(name) - 4) ELSE name
IsDigit(ch) == ch \in DigitChars
DigitsOnly(x) == x # <<>> /\ \A i \in 1..Len(x) : IsDigit(x[i])
Elix(digits) == <<Num(<<StrInt(digits)>>)>>

\* The runs of digits of a name, as pairs of first and last index.
DigitRuns(b) ==
    {ij \in (1..Len(b)) \X (1..Len(b)) :
        /\ ij[1] <= ij[2]
        /\ \A k \in ij[1]..ij[2] : IsDigit(b[k])
        /\ (ij[1] = 1 \/ ~IsDigit(b[ij[1] - 1]))
        /\ (ij[2] = Len(b) \/ ~IsDigit(b[ij[2] + 1]))}

\* C8 (amended): the identifier is the last run of digits of the file name
\* without its ".pdf" extension, wherever in the name that run stands, with
\* its leading zeros stripped; it is "ELIX" when the name holds no digit or is
\* empty.
C8_LastDigitRun ==
    (pc = "done") =>
        LET b == Stem(Name)
            runs == DigitRuns(b)
        IN  IF runs = {} THEN Out["n. Elix"] = ElixPlaceholder
            ELSE \E ij \in runs :
                    /\ \A other \in runs : other[2] <= ij[2]
                    /\ Out["n. Elix"] = Elix(SubSeq(b, ij[1], ij[2]))

\* C8 witness: a name whose digits are followed by a suffix ("04_a.pdf").
C8_Witness ==
    /\ pc = "done"
    /\ Name = <<"0", "4", "_", "a", ".", "p", "d", "f">>
    /\ Out["n. Elix"] = Elix(<<"4">>)

\* The segment after the last underscore, the whole name when it holds none.
RECURSIVE AfterLastUnderscore(_)
AfterLastUnderscore(b) ==
    IF \E i \in 1..Len(b) : b[i] = "_" THEN AfterLastUnderscore(Tail(b)) ELSE b

\* The digits a name ends with.
RECURSIVE DigitsAtEnd(_)
DigitsAtEnd(b) ==
    IF b = <<>> \/ ~IsDigit(b[Len(b)]) THEN <<>>
    ELSE Append(DigitsAtEnd(SubSeq(b, 1, Len(b) - 1)), b[Len(b)])

\* C8 as stated: the identifier is the segment after the last underscore when
\* that is purely numeric, otherwise the digits the name ends with; "ELIX"
\* when the name holds no digit.
C8_AsStated ==
    (pc = "done") =>
        LET b == Stem(Name)
        IN  IF \A i \in 1..Len(b) : ~IsDigit(b[i]) THEN Out["n. Elix"] = ElixPlaceholder
            ELSE IF DigitsOnly(AfterLastUnderscore(b))
                 THEN Out["n. Elix"] = Elix(AfterLastUnderscore(b))
                 ELSE DigitsAtEnd(b) # <<>> /\ Out["n. Elix"] = Elix(DigitsAtEnd(b))

\* The fields that are extracted from the text.
ExtractedFields ==
    {"OGGETTO", "INDIRIZZO", "DATA INIZIO", "DURATA IN GIORNI", "GEOWORKS",
     "N. di protocollo della richiesta P.G.", "Nome della ditta", "Revoca (se presente)"}

\* C6 as stated: the result holds the 19 labels, and each extracted field for
\* which an empty text holds no candidate is the empty string.
C6_AsStated ==
    (Done /\ Text = <<>>) =>
        /\ DOMAIN Out = Labels
        /\ \A f \in ExtractedFields : Out[f] = <<>>

\* C6, the part that holds: the 19 labels are there, and of an empty text
\* every extracted field but GEOWORKS is the empty string.
C6_ButGeoworks ==
    Done =>
        /\ DOMAIN Out = Labels
        /\ Text = <<>> => \A f \in ExtractedFields \ {"GEOWORKS"} : Out[f] = <<>>

\* C10 as stated: N uploaded documents give N records and a sheet of N
\* columns, each document having a column of its own with its own values.
C10_AsStated ==
    (pc = "done") =>
        /\ Len(records) = Len(uploaded_files)
        /\ Len(excel_data) = Len(uploaded_files)
        /\ \A i \in 1..Len(uploaded_files) :
              \E j \in 1..Len(excel_data) :
                 excel_data[j] =
                     <<uploaded_files[i].name,
                       ColumnOf(parse_fields_from_pdf(uploaded_files[i].name,
                                                      uploaded_files[i].text))>>

\* C10, the part that holds: there are as many records as documents, the
\* message reports that number, and documents whose names differ have a
\* column each.
C10_DistinctNames ==
    (pc = "done") =>
        /\ Len(records) = Len(uploaded_files)
        /\ columns_reported = Len(uploaded_files)
        /\ (\A i, j \in 1..Len(uploaded_files) :
               i # j => uploaded_files[i].name # uploaded_files[j].name)
           => Len(excel_data) = Len(uploaded_files)
====
